---- MODULE Spec2Model ----
(***************************************************************************)
(* ToDoListContract (Soroban): the instance storage of the contract and    *)
(* its eight entry points, src/Wmon/contracts/Wtodolist/src/lib.rs.        *)
(*                                                                         *)
(* The instance storage is one key-value map whose keys are of three       *)
(* disjoint types: u32 task ids, Address (the owner index) and the Symbol  *)
(* "next_id".  It is modelled as a record of three maps, one per key type. *)
(* Every entry point runs to completion inside one host invocation, so     *)
(* each is one atomic action.  An invocation that traps (require_auth on   *)
(* an identity that did not authorize it) is rolled back by the host.      *)
(***************************************************************************)
EXTENDS Integers, Sequences, FiniteSets, TLC

\* Bound on the number of tasks ever created (caps the next-id counter).
MaxTasks == 2

\* Bound of the completion counter of SpecCount.
MaxCompletions == 2

\* Identities that call the contract.
Addresses == {"owner_a", "owner_b"}

\* Descriptions passed by callers: the empty string and two non-empty ones.
Descriptions == {<<>>, <<"a">>, <<"b">>}

\* Values of the ledger clock.
Timestamps == {1678886400}

\* Task ids the callers pass: the ids that can be allocated (the unknown ones
\* are those not allocated yet).
TaskIds == 1..MaxTasks

\* Task ids the entry points are evaluated on in the properties: TaskIds and two
\* ids that are never allocated.
ProbeIds == 0..(MaxTasks + 1)

\* ---------------------------------------------------------------- data types

Completed == "Completed"
Pending == "Pending"
Deleted == "Deleted"
TaskStatus == {Completed, Pending, Deleted}

Task(id, description, owner, status, timestamp) ==
    [id |-> id, description |-> description, owner |-> owner,
     status |-> status, timestamp |-> timestamp]

TaskNotFound == "TaskNotFound"
InvalidTaskData == "InvalidTaskData"
Unauthorized == "Unauthorized"
TaskAlreadyCompleted == "TaskAlreadyCompleted"
TaskError == {TaskNotFound, InvalidTaskData, Unauthorized, TaskAlreadyCompleted}

\* The outcome of a successful call, and of a call that trapped in require_auth.
Ok == "Ok"
AuthFailure == "AuthFailure"

\* Option<T>: None is the empty sequence, Some(x) the one-element sequence.
None == <<>>
Some(x) == <<x>>
unwrap_or(opt, default) == IF opt = None THEN default ELSE opt[1]

\* ---------------------------------------------------------------- storage

\* storage().instance().get(&key) on one of the three maps.
StorageGet(map, key) == IF key \in DOMAIN map THEN Some(map[key]) ELSE None

\* storage().instance().set(&key, &value) on one of the three maps.
StorageSet(map, key, value) ==
    [k \in (DOMAIN map) \cup {key} |-> IF k = key THEN value ELSE map[k]]

EmptyMap == [k \in {} |-> None]

EmptyStorage == [tasks |-> EmptyMap, owners |-> EmptyMap, next_id |-> None]

\* What a call returns: the storage it leaves, its result and (add_task) the id.
Return(s, res, val) == [storage |-> s, res |-> res, val |-> val]

\* ---------------------------------------------------------------- entry points

get_next_task_id(s) == unwrap_or(s.next_id, 1)

get_task_by_id(s, task_id) == StorageGet(s.tasks, task_id)

\* Mutant of add_task: the next-id counter is not advanced (step 3 is missing).
add_task_no_advance(s, description, owner, authed, timestamp) ==
    IF ~authed THEN Return(s, AuthFailure, 0)
    ELSE IF Len(description) = 0 THEN Return(s, InvalidTaskData, 0)
    ELSE
      LET next_id == get_next_task_id(s)
          new_task == Task(next_id, description, owner, Pending, timestamp)
          s1 == [s EXCEPT !.tasks = StorageSet(s.tasks, next_id, new_task)]
          owner_tasks == unwrap_or(StorageGet(s1.owners, owner), <<>>)
          s2 == [s1 EXCEPT !.owners =
                     StorageSet(s1.owners, owner, Append(owner_tasks, next_id))]
      IN  Return(s2, Ok, next_id)

\* Mutant of add_task: the id is allocated (the counter advanced) before the
\* description is validated.
add_task_alloc_first(s, description, owner, authed, timestamp) ==
    IF ~authed THEN Return(s, AuthFailure, 0)
    ELSE
      LET next_id == get_next_task_id(s)
          s0 == [s EXCEPT !.next_id = Some(next_id + 1)]
      IN  IF Len(description) = 0 THEN Return(s0, InvalidTaskData, 0)
          ELSE
            LET new_task == Task(next_id, description, owner, Pending, timestamp)
                s1 == [s0 EXCEPT !.tasks = StorageSet(s0.tasks, next_id, new_task)]
                owner_tasks == unwrap_or(StorageGet(s1.owners, owner), <<>>)
                s2 == [s1 EXCEPT !.owners =
                         StorageSet(s1.owners, owner, Append(owner_tasks, next_id))]
            IN  Return(s2, Ok, next_id)

\* Mutant of add_task: the counter is advanced by two.
add_task_skip_id(s, description, owner, authed, timestamp) ==
    IF ~authed THEN Return(s, AuthFailure, 0)
    ELSE IF Len(description) = 0 THEN Return(s, InvalidTaskData, 0)
    ELSE
      LET next_id == get_next_task_id(s)
          new_task == Task(next_id, description, owner, Pending, timestamp)
          s1 == [s EXCEPT !.tasks = StorageSet(s.tasks, next_id, new_task)]
          owner_tasks == unwrap_or(StorageGet(s1.owners, owner), <<>>)
          s2 == [s1 EXCEPT !.owners =
                     StorageSet(s1.owners, owner, Append(owner_tasks, next_id))]
          s3 == [s2 EXCEPT !.next_id = Some(next_id + 2)]
      IN  Return(s3, Ok, next_id)

\* Mutant of add_task: the description is validated before require_auth.
add_task_validate_first(s, description, owner, authed, timestamp) ==
    IF Len(description) = 0 THEN Return(s, InvalidTaskData, 0)
    ELSE IF ~authed THEN Return(s, AuthFailure, 0)
    ELSE
      LET next_id == get_next_task_id(s)
          new_task == Task(next_id, description, owner, Pending, timestamp)
          s1 == [s EXCEPT !.tasks = StorageSet(s.tasks, next_id, new_task)]
          owner_tasks == unwrap_or(StorageGet(s1.owners, owner), <<>>)
          s2 == [s1 EXCEPT !.owners =
                     StorageSet(s1.owners, owner, Append(owner_tasks, next_id))]
          s3 == [s2 EXCEPT !.next_id = Some(next_id + 1)]
      IN  Return(s3, Ok, next_id)

\* Mutant of add_task: the description is not validated.
add_task_no_validation(s, description, owner, authed, timestamp) ==
    IF ~authed THEN Return(s, AuthFailure, 0)
    ELSE
      LET next_id == get_next_task_id(s)
          new_task == Task(next_id, description, owner, Pending, timestamp)
          s1 == [s EXCEPT !.tasks = StorageSet(s.tasks, next_id, new_task)]
          owner_tasks == unwrap_or(StorageGet(s1.owners, owner), <<>>)
          s2 == [s1 EXCEPT !.owners =
                     StorageSet(s1.owners, owner, Append(owner_tasks, next_id))]
          s3 == [s2 EXCEPT !.next_id = Some(next_id + 1)]
      IN  Return(s3, Ok, next_id)

\* Mutant of add_task: the owner's index is overwritten instead of appended to.
add_task_index_overwrite(s, description, owner, authed, timestamp) ==
    IF ~authed THEN Return(s, AuthFailure, 0)
    ELSE IF Len(description) = 0 THEN Return(s, InvalidTaskData, 0)
    ELSE
      LET next_id == get_next_task_id(s)
          new_task == Task(next_id, description, owner, Pending, timestamp)
          s1 == [s EXCEPT !.tasks = StorageSet(s.tasks, next_id, new_task)]
          s2 == [s1 EXCEPT !.owners = StorageSet(s1.owners, owner, <<next_id>>)]
          s3 == [s2 EXCEPT !.next_id = Some(next_id + 1)]
      IN  Return(s3, Ok, next_id)

add_task(s, description, owner, authed, timestamp) ==
    IF ~authed THEN Return(s, AuthFailure, 0)
    ELSE IF Len(description) = 0 THEN Return(s, InvalidTaskData, 0)
    ELSE
      LET next_id == get_next_task_id(s)
          new_task == Task(next_id, description, owner, Pending, timestamp)
          s1 == [s EXCEPT !.tasks = StorageSet(s.tasks, next_id, new_task)]
          owner_tasks == unwrap_or(StorageGet(s1.owners, owner), <<>>)
          s2 == [s1 EXCEPT !.owners =
                     StorageSet(s1.owners, owner, Append(owner_tasks, next_id))]
          s3 == [s2 EXCEPT !.next_id = Some(next_id + 1)]
      IN  Return(s3, Ok, next_id)

RECURSIVE CollectTasks(_, _)
\* The loop of get_tasks_by_owner over the indexed ids, in index order.
CollectTasks(s, task_ids) ==
    IF task_ids = <<>> THEN <<>>
    ELSE LET task == get_task_by_id(s, Head(task_ids))
             rest == CollectTasks(s, Tail(task_ids))
         IN  IF task # None /\ task[1].status # Deleted
             THEN <<task[1]>> \o rest
             ELSE rest

get_tasks_by_owner(s, owner) ==
    LET task_ids == StorageGet(s.owners, owner)
    IN  IF task_ids # None THEN CollectTasks(s, task_ids[1]) ELSE <<>>

\* Mutant of task_completed: the status is checked before the owner.
task_completed_status_first(s, task_id, caller, authed) ==
    IF ~authed THEN Return(s, AuthFailure, 0)
    ELSE LET found == StorageGet(s.tasks, task_id) IN
      IF found = None THEN Return(s, TaskNotFound, 0)
      ELSE LET task == found[1] IN
        IF task.status = Completed THEN Return(s, TaskAlreadyCompleted, 0)
        ELSE IF task.owner # caller THEN Return(s, Unauthorized, 0)
        ELSE Return([s EXCEPT !.tasks = StorageSet(s.tasks, task_id,
                          [task EXCEPT !.status = Completed])], Ok, 0)

task_completed(s, task_id, caller, authed) ==
    IF ~authed THEN Return(s, AuthFailure, 0)
    ELSE LET found == StorageGet(s.tasks, task_id) IN
      IF found = None THEN Return(s, TaskNotFound, 0)
      ELSE LET task == found[1] IN
        IF task.owner # caller THEN Return(s, Unauthorized, 0)
        ELSE IF task.status = Completed THEN Return(s, TaskAlreadyCompleted, 0)
        ELSE Return([s EXCEPT !.tasks = StorageSet(s.tasks, task_id,
                          [task EXCEPT !.status = Completed])], Ok, 0)

\* Mutant of update_task_description: the status is checked before the new
\* description.
update_task_description_status_first(s, task_id, caller, new_description, authed) ==
    IF ~authed THEN Return(s, AuthFailure, 0)
    ELSE LET found == StorageGet(s.tasks, task_id) IN
      IF found = None THEN Return(s, TaskNotFound, 0)
      ELSE LET task == found[1] IN
        IF task.owner # caller THEN Return(s, Unauthorized, 0)
        ELSE IF task.status # Pending THEN Return(s, TaskAlreadyCompleted, 0)
        ELSE IF Len(new_description) = 0 THEN Return(s, InvalidTaskData, 0)
        ELSE Return([s EXCEPT !.tasks = StorageSet(s.tasks, task_id,
                          [task EXCEPT !.description = new_description])], Ok, 0)

\* Mutant of update_task_description: the description is written before the
\* status is checked.
update_task_description_write_first(s, task_id, caller, new_description, authed) ==
    IF ~authed THEN Return(s, AuthFailure, 0)
    ELSE LET found == StorageGet(s.tasks, task_id) IN
      IF found = None THEN Return(s, TaskNotFound, 0)
      ELSE LET task == found[1] IN
        IF task.owner # caller THEN Return(s, Unauthorized, 0)
        ELSE IF Len(new_description) = 0 THEN Return(s, InvalidTaskData, 0)
        ELSE LET written == [s EXCEPT !.tasks = StorageSet(s.tasks, task_id,
                                 [task EXCEPT !.description = new_description])]
             IN  IF task.status # Pending
                 THEN Return(written, TaskAlreadyCompleted, 0)
                 ELSE Return(written, Ok, 0)

\* Mutant of update_task_description: the status check is missing.
update_task_description_any_status(s, task_id, caller, new_description, authed) ==
    IF ~authed THEN Return(s, AuthFailure, 0)
    ELSE LET found == StorageGet(s.tasks, task_id) IN
      IF found = None THEN Return(s, TaskNotFound, 0)
      ELSE LET task == found[1] IN
        IF task.owner # caller THEN Return(s, Unauthorized, 0)
        ELSE IF Len(new_description) = 0 THEN Return(s, InvalidTaskData, 0)
        ELSE Return([s EXCEPT !.tasks = StorageSet(s.tasks, task_id,
                          [task EXCEPT !.description = new_description])], Ok, 0)

update_task_description(s, task_id, caller, new_description, authed) ==
    IF ~authed THEN Return(s, AuthFailure, 0)
    ELSE LET found == StorageGet(s.tasks, task_id) IN
      IF found = None THEN Return(s, TaskNotFound, 0)
      ELSE LET task == found[1] IN
        IF task.owner # caller THEN Return(s, Unauthorized, 0)
        ELSE IF Len(new_description) = 0 THEN Return(s, InvalidTaskData, 0)
        ELSE IF task.status # Pending THEN Return(s, TaskAlreadyCompleted, 0)
        ELSE Return([s EXCEPT !.tasks = StorageSet(s.tasks, task_id,
                          [task EXCEPT !.description = new_description])], Ok, 0)

\* Mutant of task_deleted: the owner check is missing.
task_deleted_any_caller(s, task_id, caller, authed) ==
    IF ~authed THEN Return(s, AuthFailure, 0)
    ELSE LET found == StorageGet(s.tasks, task_id) IN
      IF found = None THEN Return(s, TaskNotFound, 0)
      ELSE LET task == found[1] IN
        Return([s EXCEPT !.tasks = StorageSet(s.tasks, task_id,
                          [task EXCEPT !.status = Deleted])], Ok, 0)

\* Mutant of task_deleted: the record is removed from the storage.
task_deleted_removes(s, task_id, caller, authed) ==
    IF ~authed THEN Return(s, AuthFailure, 0)
    ELSE LET found == StorageGet(s.tasks, task_id) IN
      IF found = None THEN Return(s, TaskNotFound, 0)
      ELSE LET task == found[1] IN
        IF task.owner # caller THEN Return(s, Unauthorized, 0)
        ELSE Return([s EXCEPT !.tasks =
                          [k \in (DOMAIN s.tasks) \ {task_id} |-> s.tasks[k]]], Ok, 0)

\* Mutant of task_deleted: a task that is already Deleted is refused.
task_deleted_once(s, task_id, caller, authed) ==
    IF ~authed THEN Return(s, AuthFailure, 0)
    ELSE LET found == StorageGet(s.tasks, task_id) IN
      IF found = None THEN Return(s, TaskNotFound, 0)
      ELSE LET task == found[1] IN
        IF task.owner # caller THEN Return(s, Unauthorized, 0)
        ELSE IF task.status = Deleted THEN Return(s, TaskAlreadyCompleted, 0)
        ELSE Return([s EXCEPT !.tasks = StorageSet(s.tasks, task_id,
                          [task EXCEPT !.status = Deleted])], Ok, 0)

task_deleted(s, task_id, caller, authed) ==
    IF ~authed THEN Return(s, AuthFailure, 0)
    ELSE LET found == StorageGet(s.tasks, task_id) IN
      IF found = None THEN Return(s, TaskNotFound, 0)
      ELSE LET task == found[1] IN
        IF task.owner # caller THEN Return(s, Unauthorized, 0)
        ELSE Return([s EXCEPT !.tasks = StorageSet(s.tasks, task_id,
                          [task EXCEPT !.status = Deleted])], Ok, 0)

\* Mutant of transfer_ownership: the changed task is not written back.
transfer_ownership_no_write(s, task_id, caller, new_owner, authed) ==
    IF ~authed THEN Return(s, AuthFailure, 0)
    ELSE LET found == StorageGet(s.tasks, task_id) IN
      IF found = None THEN Return(s, TaskNotFound, 0)
      ELSE LET task == found[1] IN
        IF task.owner # caller THEN Return(s, Unauthorized, 0)
        ELSE Return(s, Ok, 0)

\* Mutant of transfer_ownership: the task id is appended to the new owner's index.
transfer_ownership_reindex(s, task_id, caller, new_owner, authed) ==
    IF ~authed THEN Return(s, AuthFailure, 0)
    ELSE LET found == StorageGet(s.tasks, task_id) IN
      IF found = None THEN Return(s, TaskNotFound, 0)
      ELSE LET task == found[1] IN
        IF task.owner # caller THEN Return(s, Unauthorized, 0)
        ELSE LET s1 == [s EXCEPT !.tasks = StorageSet(s.tasks, task_id,
                            [task EXCEPT !.owner = new_owner])]
                 owner_tasks == unwrap_or(StorageGet(s1.owners, new_owner), <<>>)
             IN  Return([s1 EXCEPT !.owners = StorageSet(s1.owners, new_owner,
                            Append(owner_tasks, task_id))], Ok, 0)

\* Mutant of transfer_ownership: the task is rebuilt as a new, Pending task.
transfer_ownership_resets_status(s, task_id, caller, new_owner, authed) ==
    IF ~authed THEN Return(s, AuthFailure, 0)
    ELSE LET found == StorageGet(s.tasks, task_id) IN
      IF found = None THEN Return(s, TaskNotFound, 0)
      ELSE LET task == found[1] IN
        IF task.owner # caller THEN Return(s, Unauthorized, 0)
        ELSE Return([s EXCEPT !.tasks = StorageSet(s.tasks, task_id,
                          Task(task.id, task.description, new_owner, Pending,
                               task.timestamp))], Ok, 0)

transfer_ownership(s, task_id, caller, new_owner, authed) ==
    IF ~authed THEN Return(s, AuthFailure, 0)
    ELSE LET found == StorageGet(s.tasks, task_id) IN
      IF found = None THEN Return(s, TaskNotFound, 0)
      ELSE LET task == found[1] IN
        IF task.owner # caller THEN Return(s, Unauthorized, 0)
        ELSE Return([s EXCEPT !.tasks = StorageSet(s.tasks, task_id,
                          [task EXCEPT !.owner = new_owner])], Ok, 0)

RECURSIVE ScanTasks(_, _, _)
\* The loop of get_all: for id in from..(last_id - 1).
ScanTasks(s, from, last_id) ==
    IF from >= last_id THEN <<>>
    ELSE LET task == get_task_by_id(s, from)
             rest == ScanTasks(s, from + 1, last_id)
         IN  IF task # None /\ task[1].status # Deleted
             THEN <<task[1]>> \o rest
             ELSE rest

\* Mutant of get_all: the scan stops one id early (1..last_id - 1 exclusive).
get_all_off_by_one(s) == ScanTasks(s, 1, get_next_task_id(s) - 1)

get_all(s) == ScanTasks(s, 1, get_next_task_id(s))

\* ---------------------------------------------------------------- state

VARIABLES
    storage,         \* the contract's instance storage
    last,            \* what the last invocation returned: result and (add_task) id
    created,         \* history: how many add_task calls have succeeded
    complete_count   \* history (SpecCount): per task id, how many times
                     \* task_completed has succeeded

vars == <<storage, last, created, complete_count>>

\* What the invoker of a call sees of it.
Returned(r) == [res |-> r.res, val |-> r.val]

Init ==
    /\ storage = EmptyStorage
    /\ last = [res |-> "none", val |-> 0]
    /\ created = 0
    /\ complete_count = [id \in TaskIds |-> 0]

\* One invocation of each entry point: the storage it leaves and what it returns.
AddTaskCall(description, owner, authed, timestamp) ==
    LET r == add_task(storage, description, owner, authed, timestamp)
    IN  /\ r.res = Ok => get_next_task_id(storage) <= MaxTasks
        /\ storage' = r.storage
        /\ last' = Returned(r)

TaskCompletedCall(task_id, caller, authed) ==
    LET r == task_completed(storage, task_id, caller, authed)
    IN  /\ storage' = r.storage
        /\ last' = Returned(r)

UpdateTaskDescriptionCall(task_id, caller, new_description, authed) ==
    LET r == update_task_description(storage, task_id, caller, new_description, authed)
    IN  /\ storage' = r.storage
        /\ last' = Returned(r)

TaskDeletedCall(task_id, caller, authed) ==
    LET r == task_deleted(storage, task_id, caller, authed)
    IN  /\ storage' = r.storage
        /\ last' = Returned(r)

TransferOwnershipCall(task_id, caller, new_owner, authed) ==
    LET r == transfer_ownership(storage, task_id, caller, new_owner, authed)
    IN  /\ storage' = r.storage
        /\ last' = Returned(r)

\* require_auth is the first statement of every mutating entry point and a trap
\* rolls the invocation back, so an unauthorized invocation leaves the same state
\* and the same outcome whatever its other arguments: the actions draw those
\* arguments from TrapIds, TrapDescriptions and TrapOwners.  (The entry points
\* themselves are defined, and their properties stated, for every argument.)
TrapIds == {1}
TrapDescriptions == {<<>>}
TrapOwners == {"owner_a"}

AddTask ==
    \E authed \in BOOLEAN :
    \E description \in (IF authed THEN Descriptions ELSE TrapDescriptions),
       owner \in Addresses, timestamp \in Timestamps :
        /\ AddTaskCall(description, owner, authed, timestamp)
        /\ created' = IF last'.res = Ok THEN created + 1 ELSE created
        /\ UNCHANGED complete_count

TaskCompleted ==
    \E authed \in BOOLEAN :
    \E task_id \in (IF authed THEN TaskIds ELSE TrapIds), caller \in Addresses :
        /\ TaskCompletedCall(task_id, caller, authed)
        /\ UNCHANGED <<created, complete_count>>

UpdateTaskDescription ==
    \E authed \in BOOLEAN :
    \E task_id \in (IF authed THEN TaskIds ELSE TrapIds), caller \in Addresses,
       new_description \in (IF authed THEN Descriptions ELSE TrapDescriptions) :
        /\ UpdateTaskDescriptionCall(task_id, caller, new_description, authed)
        /\ UNCHANGED <<created, complete_count>>

TaskDeleted ==
    \E authed \in BOOLEAN :
    \E task_id \in (IF authed THEN TaskIds ELSE TrapIds), caller \in Addresses :
        /\ TaskDeletedCall(task_id, caller, authed)
        /\ UNCHANGED <<created, complete_count>>

TransferOwnership ==
    \E authed \in BOOLEAN :
    \E task_id \in (IF authed THEN TaskIds ELSE TrapIds), caller \in Addresses,
       new_owner \in (IF authed THEN Addresses ELSE TrapOwners) :
        /\ TransferOwnershipCall(task_id, caller, new_owner, authed)
        /\ UNCHANGED <<created, complete_count>>

Next ==
    \/ AddTask
    \/ TaskCompleted
    \/ UpdateTaskDescription
    \/ TaskDeleted
    \/ TransferOwnership

Spec == Init /\ [][Next]_vars

\* task_completed with the history of its successes kept (capped at MaxCompletions).
TaskCompletedCounted ==
    \E authed \in BOOLEAN :
    \E task_id \in (IF authed THEN TaskIds ELSE TrapIds), caller \in Addresses :
        /\ TaskCompletedCall(task_id, caller, authed)
        /\ last'.res = Ok => complete_count[task_id] < MaxCompletions
        /\ complete_count' = IF last'.res = Ok
                              THEN [complete_count EXCEPT ![task_id] = @ + 1]
                              ELSE complete_count
        /\ UNCHANGED created

NextCount ==
    \/ AddTask
    \/ TaskCompletedCounted
    \/ UpdateTaskDescription
    \/ TaskDeleted
    \/ TransferOwnership

SpecCount == Init /\ [][NextCount]_vars

\* ---------------------------------------------------------------- properties

StoredIds == DOMAIN storage.tasks
NonEmptyDescriptions == {d \in Descriptions : Len(d) > 0}

\* The elements of a sequence, as a set.
Range(seq) == {seq[i] : i \in 1..Len(seq)}

\* C1: the k-th successful add_task returns id k (ids start at 1 and increase by
\* one whatever else is interleaved), and right after it get_task_by_id(k) is the
\* task with id k, status Pending, the given description, owner and timestamp.
C1_CreateReturnsKthId ==
    [][last'.res = Ok =>
        \A description \in Descriptions, owner \in Addresses, timestamp \in Timestamps :
          AddTaskCall(description, owner, TRUE, timestamp)
          => /\ created' = created + 1
             /\ last'.val = created'
             /\ get_task_by_id(storage', last'.val)
                  = Some(Task(created', description, owner, Pending, timestamp))]_vars

\* C1 witness: the second successful create has just returned 2, after another
\* operation changed the first task.
C1_Witness ==
    /\ last.res = Ok /\ last.val = 2
    /\ created = 2
    /\ storage.tasks[1].status # Pending
    /\ storage.tasks[2].status = Pending

\* C2 (as claimed): once a stored task is Deleted, after any further operation it
\* is still Deleted, still returned by get_task_by_id, and neither in get_all nor
\* in any get_tasks_by_owner result.
C2_DeletedIsTerminal ==
    [][\A id \in StoredIds :
          storage.tasks[id].status = Deleted
          => /\ get_task_by_id(storage', id) # None
             /\ get_task_by_id(storage', id)[1].status = Deleted
             /\ \A t \in Range(get_all(storage')) : t.id # id
             /\ \A o \in Addresses :
                  \A t \in Range(get_tasks_by_owner(storage', o)) : t.id # id]_vars

\* C3 (as claimed): task_completed succeeds at most once for a given task id.
C3_CompletedAtMostOnce ==
    \A id \in TaskIds : complete_count[id] <= 1

\* C4: only the current owner mutates a task.  On every stored task, whatever its
\* status and whatever the other arguments, a successful task_completed,
\* update_task_description, task_deleted or transfer_ownership was called by the
\* task's owner, and the same calls by any other authorized caller return
\* Unauthorized.
C4_OnlyOwnerMutates ==
    \A id \in StoredIds, caller \in Addresses :
        LET results ==
                {task_completed(storage, id, caller, TRUE).res,
                 task_deleted(storage, id, caller, TRUE).res}
                \cup {update_task_description(storage, id, caller, d, TRUE).res :
                        d \in Descriptions}
                \cup {transfer_ownership(storage, id, caller, n, TRUE).res :
                        n \in Addresses}
        IN  /\ Ok \in results => caller = storage.tasks[id].owner
            /\ caller # storage.tasks[id].owner => results = {Unauthorized}

\* C4 witness: task 1 was created by owner_a, now belongs to owner_b and is
\* Completed; a call has just been refused as Unauthorized, as every mutating
\* call of owner_a on it is.
C4_Witness ==
    /\ last.res = Unauthorized
    /\ task_deleted(storage, 1, "owner_a", TRUE).res = Unauthorized
    /\ StoredIds = {1}
    /\ storage.tasks[1].owner = "owner_b"
    /\ storage.tasks[1].status = Completed
    /\ StorageGet(storage.owners, "owner_a") = Some(<<1>>)

\* C5: task_completed by an authorized caller returns the first error that
\* applies, in the order TaskNotFound, Unauthorized, TaskAlreadyCompleted, and
\* otherwise succeeds and leaves the status Completed.
C5_CompleteErrorOrder ==
    \A id \in ProbeIds, caller \in Addresses :
        LET r == task_completed(storage, id, caller, TRUE) IN
        /\ id \notin StoredIds => r.res = TaskNotFound
        /\ id \in StoredIds =>
             LET task == storage.tasks[id] IN
             /\ task.owner # caller => r.res = Unauthorized
             /\ (task.owner = caller /\ task.status = Completed)
                  => r.res = TaskAlreadyCompleted
             /\ (task.owner = caller /\ task.status # Completed)
                  => r.res = Ok /\ r.storage.tasks[id].status = Completed

\* C5 witness: the only stored task is Completed, a call on it has just been
\* refused as Unauthorized, and so is task_completed by who is not its owner.
C5_Witness ==
    /\ last.res = Unauthorized
    /\ StoredIds = {1}
    /\ storage.tasks[1].status = Completed
    /\ \E caller \in Addresses :
         /\ caller # storage.tasks[1].owner
         /\ task_completed(storage, 1, caller, TRUE).res = Unauthorized

\* C6: update_task_description by an authorized caller returns the first error
\* that applies, in the order TaskNotFound, Unauthorized, InvalidTaskData,
\* TaskAlreadyCompleted, and otherwise succeeds and stores the new description.
C6_UpdateErrorOrder ==
    \A id \in ProbeIds, caller \in Addresses, d \in Descriptions :
        LET r == update_task_description(storage, id, caller, d, TRUE) IN
        /\ id \notin StoredIds => r.res = TaskNotFound
        /\ id \in StoredIds =>
             LET task == storage.tasks[id] IN
             /\ task.owner # caller => r.res = Unauthorized
             /\ (task.owner = caller /\ Len(d) = 0) => r.res = InvalidTaskData
             /\ (task.owner = caller /\ Len(d) > 0 /\ task.status # Pending)
                  => r.res = TaskAlreadyCompleted
             /\ (task.owner = caller /\ Len(d) > 0 /\ task.status = Pending)
                  => r.res = Ok /\ r.storage.tasks[id].description = d

\* C6 witness: a task exists, every stored task is Deleted, and a call has just
\* returned InvalidTaskData without creating anything: an update_task_description
\* of a Deleted task by its owner, with an empty description.
C6_Witness ==
    /\ last.res = InvalidTaskData
    /\ StoredIds = {1}
    /\ storage.tasks[1].status = Deleted
    /\ update_task_description(storage, 1, storage.tasks[1].owner, <<>>, TRUE).res
         = InvalidTaskData

\* C7: add_task with an empty description by an authorized owner returns
\* InvalidTaskData and leaves the whole storage as it was: nothing is stored at
\* the would-be id, and the next successful add_task returns that id.
C7_EmptyCreateAllocatesNothing ==
    \A owner \in Addresses, timestamp \in Timestamps :
        LET r == add_task(storage, <<>>, owner, TRUE, timestamp)
            would_be == get_next_task_id(storage)
        IN  /\ r.res = InvalidTaskData
            /\ r.storage = storage
            /\ get_task_by_id(r.storage, would_be) = None
            /\ \A d \in NonEmptyDescriptions, o \in Addresses :
                 LET again == add_task(r.storage, d, o, TRUE, timestamp)
                 IN  again.res = Ok /\ again.val = would_be

\* C7 witness: on the empty store a call has just failed with InvalidTaskData
\* (only add_task with an empty description does); id 1 is still the next id and
\* nothing is stored there.
C7_Witness ==
    /\ last.res = InvalidTaskData
    /\ created = 0
    /\ storage = EmptyStorage
    /\ get_next_task_id(storage) = 1
    /\ get_task_by_id(storage, 1) = None

\* What C8 says of task id once it went from old to new: new is its owner, old is
\* refused by task_completed and task_deleted, new is accepted by both.
TransferredTo(s, id, old, new) ==
    /\ get_task_by_id(s, id) # None
    /\ get_task_by_id(s, id)[1].owner = new
    /\ task_completed(s, id, old, TRUE).res = Unauthorized
    /\ task_deleted(s, id, old, TRUE).res = Unauthorized
    /\ task_deleted(s, id, new, TRUE).res = Ok
    /\ task_completed(s, id, new, TRUE).res =
         IF s.tasks[id].status = Completed THEN TaskAlreadyCompleted ELSE Ok

\* A successful transfer_ownership of task id happens in this step.
TransferredNow(id) ==
    /\ last'.res = Ok
    /\ \E caller \in Addresses, new_owner \in Addresses :
         TransferOwnershipCall(id, caller, new_owner, TRUE)

\* C8: a successful transfer_ownership(id, old, new) with new # old makes new the
\* owner, refuses old and accepts new in task_completed and task_deleted; and this
\* stays so through every step that is not another transfer of the task.
C8_TransferMovesAuthority ==
    [][\A id \in TaskIds, old \in Addresses, new \in Addresses :
          old # new =>
            /\ (/\ last'.res = Ok
                /\ TransferOwnershipCall(id, old, new, TRUE))
                 => TransferredTo(storage', id, old, new)
            /\ (/\ storage' # storage
                /\ TransferredTo(storage, id, old, new)
                /\ ~TransferredNow(id))
                 => TransferredTo(storage', id, old, new)]_vars

\* C8 witness: task 1, created by owner_a, has just been transferred to owner_b;
\* owner_a is now refused and owner_b accepted.
C8_Witness ==
    /\ last.res = Ok /\ last.val = 0
    /\ StoredIds = {1}
    /\ storage.tasks[1].status = Pending
    /\ StorageGet(storage.owners, "owner_a") = Some(<<1>>)
    /\ TransferredTo(storage, 1, "owner_a", "owner_b")

\* C9: get_all is exactly the stored tasks that are not Deleted, each once, in
\* strictly ascending id order; on the empty store it is empty.
C9_GetAllExact ==
    LET all == get_all(storage) IN
    /\ \A i \in 1..Len(all) :
         /\ all[i].id \in StoredIds
         /\ all[i] = storage.tasks[all[i].id]
         /\ all[i].status # Deleted
    /\ \A id \in StoredIds :
         storage.tasks[id].status # Deleted
         => Cardinality({i \in 1..Len(all) : all[i] = storage.tasks[id]}) = 1
    /\ \A i \in 1..Len(all), j \in 1..Len(all) : i < j => all[i].id < all[j].id
    /\ StoredIds = {} => all = <<>>

\* C9 witness: task 1 is Deleted, task 2 is Completed and owned by somebody else
\* than task 1; get_all has just task 2.
C9_Witness ==
    /\ StoredIds = {1, 2}
    /\ storage.tasks[1].status = Deleted
    /\ storage.tasks[2].status = Completed
    /\ storage.tasks[1].owner # storage.tasks[2].owner
    /\ get_all(storage) = <<storage.tasks[2]>>

\* C10 (as claimed): get_tasks_by_owner(o) is exactly the stored tasks whose owner
\* field is o and whose status is not Deleted.
C10_ByOwnerIsOwnedTasks ==
    \A o \in Addresses :
        Range(get_tasks_by_owner(storage, o))
          = {storage.tasks[id] : id \in {i \in StoredIds :
                 storage.tasks[i].owner = o /\ storage.tasks[i].status # Deleted}}

\* The ids of the tasks of a sequence of tasks.
Ids(tasks) == {task.id : task \in Range(tasks)}

\* C11 (as claimed): after every successful transfer_ownership(id, caller,
\* new_owner), get_tasks_by_owner(new_owner) does not contain the task.
C11_NeverUnderNewOwner ==
    \A id \in ProbeIds, caller \in Addresses, new_owner \in Addresses :
        LET r == transfer_ownership(storage, id, caller, new_owner, TRUE)
        IN  r.res = Ok => id \notin Ids(get_tasks_by_owner(r.storage, new_owner))

\* C11 (amended): a successful transfer_ownership(id, caller, new_owner) makes
\* new_owner the owner seen by get_task_by_id and leaves the owner index as it
\* was: the task is in get_tasks_by_owner(new_owner) afterwards exactly when
\* new_owner's index already held it (new_owner created it) and it is not Deleted.
C11_TransferLeavesIndex ==
    \A id \in ProbeIds, caller \in Addresses, new_owner \in Addresses :
        LET r == transfer_ownership(storage, id, caller, new_owner, TRUE)
        IN  r.res = Ok =>
              /\ get_task_by_id(r.storage, id) # None
              /\ get_task_by_id(r.storage, id)[1].owner = new_owner
              /\ r.storage.owners = storage.owners
              /\ id \in Ids(get_tasks_by_owner(r.storage, new_owner))
                   <=> /\ id \in Range(unwrap_or(StorageGet(storage.owners, new_owner),
                                                 <<>>))
                       /\ storage.tasks[id].status # Deleted

\* C11 witness: task 1, created by owner_a, belongs to owner_b after a successful
\* call; it is still listed for owner_a and not for owner_b.
C11_Witness ==
    /\ last.res = Ok /\ last.val = 0
    /\ StoredIds = {1}
    /\ storage.tasks[1].owner = "owner_b"
    /\ Ids(get_tasks_by_owner(storage, "owner_a")) = {1}
    /\ get_tasks_by_owner(storage, "owner_b") = <<>>

\* C12: the next-id counter is 1 plus the number of successful creates (1 when
\* unset, which is so exactly while nothing was created), and get_task_by_id
\* returns a task exactly for the ids 1..counter-1.
C12_CounterCountsCreates ==
    /\ get_next_task_id(storage) = created + 1
    /\ storage.next_id = None <=> created = 0
    /\ StoredIds = 1..(get_next_task_id(storage) - 1)
    /\ {id \in ProbeIds : get_task_by_id(storage, id) # None}
         = 1..(get_next_task_id(storage) - 1)

\* C12 witness: two creates succeeded, task 1 was then deleted, and a call has
\* just failed; the counter is 3.
C12_Witness ==
    /\ created = 2
    /\ storage.next_id = Some(3)
    /\ storage.tasks[1].status = Deleted
    /\ last.res \in TaskError

\* C13: an invocation the named identity did not authorize ends in the
\* authentication failure, never in a TaskError, whatever its other arguments and
\* whatever engine error they would raise.
C13_AuthFirst ==
    \A id \in ProbeIds, who \in Addresses, d \in Descriptions :
        /\ \A timestamp \in Timestamps :
             add_task(storage, d, who, FALSE, timestamp).res = AuthFailure
        /\ task_completed(storage, id, who, FALSE).res = AuthFailure
        /\ update_task_description(storage, id, who, d, FALSE).res = AuthFailure
        /\ task_deleted(storage, id, who, FALSE).res = AuthFailure
        /\ \A n \in Addresses :
             transfer_ownership(storage, id, who, n, FALSE).res = AuthFailure

\* C13 witness: on the empty store, where add_task with an empty description
\* gives InvalidTaskData and every other call TaskNotFound, an unauthorized
\* invocation has just ended in the authentication failure.
C13_Witness ==
    /\ last.res = AuthFailure
    /\ storage = EmptyStorage
    /\ add_task(storage, <<>>, "owner_a", TRUE, 1678886400).res = InvalidTaskData
    /\ task_completed(storage, 1, "owner_a", TRUE).res = TaskNotFound

\* C14: a call that ends in an error (a TaskError or the authentication failure)
\* leaves the whole storage - task records, owner index, counter - as it was.
C14_ErrorsChangeNothing ==
    \A id \in ProbeIds, who \in Addresses, d \in Descriptions, authed \in BOOLEAN :
        LET results ==
                {add_task(storage, d, who, authed, timestamp) :
                    timestamp \in Timestamps}
                \cup {task_completed(storage, id, who, authed),
                      update_task_description(storage, id, who, d, authed),
                      task_deleted(storage, id, who, authed)}
                \cup {transfer_ownership(storage, id, who, n, authed) :
                        n \in Addresses}
        IN  \A r \in results : r.res # Ok => r.storage = storage

\* C14 witness: the only stored task is Completed and a call has just been refused
\* with TaskAlreadyCompleted.
C14_Witness ==
    /\ last.res = TaskAlreadyCompleted
    /\ StoredIds = {1}
    /\ storage.tasks[1].status = Completed
    /\ storage.tasks[1].description = <<"a">>

\* C15: the description of a stored task changes only in a successful
\* update_task_description made while the task is Pending; a task that is
\* Completed or Deleted keeps its description and stays Completed or Deleted.
C15_DescriptionOnlyWhilePending ==
    [][\A id \in StoredIds :
          /\ get_task_by_id(storage', id) # None
          /\ storage'.tasks[id].description # storage.tasks[id].description
               => /\ storage.tasks[id].status = Pending
                  /\ last'.res = Ok
                  /\ \E caller \in Addresses, d \in NonEmptyDescriptions :
                       UpdateTaskDescriptionCall(id, caller, d, TRUE)
          /\ storage.tasks[id].status # Pending
               => /\ storage'.tasks[id].description = storage.tasks[id].description
                  /\ storage'.tasks[id].status # Pending]_vars

\* C15 witness: the only stored task is Deleted and a call on it has just been
\* refused with TaskAlreadyCompleted (task_completed accepts a Deleted task, so it
\* was an update_task_description by its owner).
C15_Witness ==
    /\ last.res = TaskAlreadyCompleted
    /\ StoredIds = {1}
    /\ storage.tasks[1].status = Deleted
    /\ \A d \in NonEmptyDescriptions :
         update_task_description(storage, 1, storage.tasks[1].owner, d, TRUE).res
           = TaskAlreadyCompleted

\* C16: a task is created Pending, leaves Pending only in a successful
\* task_completed or task_deleted on it, and never returns to Pending.
C16_NeverBackToPending ==
    [][/\ \A id \in StoredIds :
            /\ get_task_by_id(storage', id) # None
            /\ storage.tasks[id].status # Pending
                 => storage'.tasks[id].status # Pending
            /\ (storage.tasks[id].status = Pending
                /\ storage'.tasks[id].status # Pending)
                 => /\ last'.res = Ok
                    /\ \E caller \in Addresses :
                         \/ TaskCompletedCall(id, caller, TRUE)
                         \/ TaskDeletedCall(id, caller, TRUE)
       /\ \A id \in (DOMAIN storage'.tasks) \ StoredIds :
            storage'.tasks[id].status = Pending]_vars

\* C16 witness: task 1 is Completed, task 2 is Deleted, and a call has just been
\* refused with TaskAlreadyCompleted.
C16_Witness ==
    /\ last.res = TaskAlreadyCompleted
    /\ StoredIds = {1, 2}
    /\ storage.tasks[1].status = Completed
    /\ storage.tasks[2].status = Deleted

\* C17: every stored task has a non-empty description.
C17_DescriptionNeverEmpty ==
    \A id \in StoredIds : Len(storage.tasks[id].description) > 0

\* C17 witness: two Pending tasks with different descriptions are stored and a
\* call (an add_task or an update_task_description with an empty description) has
\* just been refused with InvalidTaskData.
C17_Witness ==
    /\ last.res = InvalidTaskData
    /\ StoredIds = {1, 2}
    /\ storage.tasks[1].status = Pending
    /\ storage.tasks[2].status = Pending
    /\ storage.tasks[1].description # storage.tasks[2].description

\* C18: a stored record is never removed, the record under id k has id field k,
\* and its id and timestamp never change.
C18_RecordsKeepIdentity ==
    [][/\ \A id \in StoredIds :
            /\ get_task_by_id(storage', id) # None
            /\ storage'.tasks[id].id = storage.tasks[id].id
            /\ storage'.tasks[id].timestamp = storage.tasks[id].timestamp
       /\ \A id \in DOMAIN storage'.tasks : storage'.tasks[id].id = id]_vars

\* C18 witness: task 1, created by owner_a, has been transferred to owner_b and
\* deleted, task 2 has been completed; both still carry their id and timestamp.
C18_Witness ==
    /\ StoredIds = {1, 2}
    /\ StorageGet(storage.owners, "owner_a") = Some(<<1, 2>>)
    /\ storage.tasks[1].owner = "owner_b"
    /\ storage.tasks[1].status = Deleted
    /\ storage.tasks[2].status = Completed
    /\ \A id \in StoredIds :
         storage.tasks[id].id = id /\ storage.tasks[id].timestamp \in Timestamps

\* C19: task_deleted by the owner of a stored task succeeds whatever the status
\* (Pending, Completed or Deleted) and leaves it Deleted; a second call succeeds
\* too and changes nothing more.
C19_DeleteAnyStatusIdempotent ==
    \A id \in StoredIds :
        LET owner == storage.tasks[id].owner
            once == task_deleted(storage, id, owner, TRUE)
            twice == task_deleted(once.storage, id, owner, TRUE)
        IN  /\ once.res = Ok
            /\ once.storage.tasks[id].status = Deleted
            /\ twice.res = Ok
            /\ twice.storage = once.storage

\* C19 witness: the only stored task is Deleted after a successful call, and
\* deleting it again succeeds and leaves the storage as it is.
C19_Witness ==
    /\ last.res = Ok /\ last.val = 0
    /\ StoredIds = {1}
    /\ storage.tasks[1].status = Deleted
    /\ task_deleted(storage, 1, storage.tasks[1].owner, TRUE)
         = Return(storage, Ok, 0)

\* The index sequence of an identity (empty when it has none).
IndexOf(s, owner) == unwrap_or(StorageGet(s.owners, owner), <<>>)

\* C20: the owner index partitions the allocated ids: every id of 1..counter-1 is
\* in exactly one index sequence, once, and the sequences are strictly ascending;
\* a successful add_task appends the new id to the index of the owner it was
\* given and no other call changes the index; so the get_tasks_by_owner results
\* are pairwise disjoint and their union is the set of tasks of get_all.
C20_IndexPartitionsIds ==
    /\ \A id \in 1..(get_next_task_id(storage) - 1) :
         Cardinality({<<o, i>> \in Addresses \X (1..MaxTasks + 1) :
                        /\ i <= Len(IndexOf(storage, o))
                        /\ IndexOf(storage, o)[i] = id}) = 1
    /\ \A o \in DOMAIN storage.owners :
         /\ o \in Addresses
         /\ Range(storage.owners[o]) \subseteq 1..(get_next_task_id(storage) - 1)
         /\ \A i \in 1..Len(storage.owners[o]), j \in 1..Len(storage.owners[o]) :
              i < j => storage.owners[o][i] < storage.owners[o][j]
    /\ \A o \in Addresses, d \in Descriptions, timestamp \in Timestamps :
         LET r == add_task(storage, d, o, TRUE, timestamp)
         IN  r.storage.owners =
               IF r.res = Ok
               THEN StorageSet(storage.owners, o, Append(IndexOf(storage, o), r.val))
               ELSE storage.owners
    /\ \A id \in ProbeIds, who \in Addresses :
         /\ task_completed(storage, id, who, TRUE).storage.owners = storage.owners
         /\ task_deleted(storage, id, who, TRUE).storage.owners = storage.owners
         /\ \A d \in Descriptions :
              update_task_description(storage, id, who, d, TRUE).storage.owners
                = storage.owners
         /\ \A n \in Addresses :
              transfer_ownership(storage, id, who, n, TRUE).storage.owners
                = storage.owners
    /\ \A o1 \in Addresses, o2 \in Addresses :
         o1 # o2 => Range(get_tasks_by_owner(storage, o1))
                      \cap Range(get_tasks_by_owner(storage, o2)) = {}
    /\ UNION {Range(get_tasks_by_owner(storage, o)) : o \in Addresses}
         = Range(get_all(storage))

\* C20 witness: owner_a created tasks 1 and 2; task 1 is Deleted and task 2 now
\* belongs to owner_b, who has no index; task 2 is listed for owner_a only.
C20_Witness ==
    /\ DOMAIN storage.owners = {"owner_a"}
    /\ storage.owners["owner_a"] = <<1, 2>>
    /\ storage.tasks[1].status = Deleted
    /\ storage.tasks[2].owner = "owner_b"
    /\ get_tasks_by_owner(storage, "owner_a") = <<storage.tasks[2]>>
    /\ get_all(storage) = <<storage.tasks[2]>>

====
